---- MODULE Spec2Model ----
(***************************************************************************)
(* A model of the Rork.app code exporter.  The repository ships two        *)
(* extraction engines:                                                     *)
(*   "v52"  src/script.js          the recursive processDirectory engine   *)
(*   "v61"  src/README.md 29..206  expandAllFolders + getFullPath + a flat  *)
(*                                  loop over the enumerated buttons        *)
(* Both drive the same surface (the rendered file tree, the content viewer,*)
(* the clipboard) and fill the same kind of archive (JSZip).               *)
(*                                                                         *)
(* Strings are sequences of tokens (a token is a TLA+ string standing for  *)
(* one character or one indivisible run of characters); concatenation,     *)
(* trim, lastIndexOf, substring, includes, indexOf, split and join are     *)
(* computed on those sequences.                                            *)
(***************************************************************************)
EXTENDS Integers, Sequences, FiniteSets, TLC

\* ------------------------------------------------------------------ bounds
\* largest number of buttons (folders and files) in the rendered tree
NumNodes == 3
\* how many departures from the plain surface the tree may carry at the start,
\* and how many more one run may meet (in the viewer, the copy button, zip.file)
MaxQuirks == 1
\* the batch counter of expandAllFolders saturates here
MaxBatches == 4
\* how many clipboard steps of one run may find the document without focus or
\* have readText throw
MaxClipFaults == 1

\* ------------------------------------------------------------- strings
\* String.length of a token sequence: the single characters count 1
SingleChars == {" ", ".", "/", "x", "y", "A", "B", ";", "="}
TokLen(t) == IF t \in SingleChars THEN 1 ELSE 2
RECURSIVE CharLen(_)
CharLen(s) == IF s = <<>> THEN 0 ELSE TokLen(Head(s)) + CharLen(Tail(s))

\* String.prototype.trim
RECURSIVE TrimLeft(_)
TrimLeft(s) == IF s # <<>> /\ Head(s) = " " THEN TrimLeft(Tail(s)) ELSE s
RECURSIVE TrimRight(_)
TrimRight(s) ==
    IF s # <<>> /\ s[Len(s)] = " " THEN TrimRight(SubSeq(s, 1, Len(s) - 1)) ELSE s
Trim(s) == TrimRight(TrimLeft(s))

\* String.prototype.includes / indexOf for a one-token needle (0 = not found)
Includes(s, tok) == \E k \in 1..Len(s) : s[k] = tok
IndexOf(s, tok) ==
    IF Includes(s, tok) THEN CHOOSE k \in 1..Len(s) : s[k] = tok /\ \A j \in 1..(k - 1) : s[j] # tok
    ELSE 0
LastIndexOf(s, tok) ==
    IF Includes(s, tok) THEN CHOOSE k \in 1..Len(s) : s[k] = tok /\ \A j \in (k + 1)..Len(s) : s[j] # tok
    ELSE 0
\* s.substring(k) with k a 1-based token position
SubstringFrom(s, k) == SubSeq(s, k, Len(s))

\* String.prototype.toLowerCase
LowerTok(t) == CASE t = "PNG" -> "png" [] t = "A" -> "a" [] t = "B" -> "b" [] OTHER -> t
ToLowerCase(s) == [k \in 1..Len(s) |-> LowerTok(s[k])]

\* Array.prototype.join("/")
RECURSIVE JoinSlash(_)
JoinSlash(segs) ==
    IF segs = <<>> THEN <<>>
    ELSE IF Len(segs) = 1 THEN segs[1]
    ELSE segs[1] \o <<"/">> \o JoinSlash(Tail(segs))

\* ------------------------------------------------------------- the surface
\* The rendered file tree: buttons 1..Len(tree) in document order.  kind is the
\* icon of the button (svg.lucide-folder / svg.lucide-file), parent the button
\* whose region encloses it (0: the root container), text the textContent of
\* its label element, lab where that label element sits in the button
\* ("direct": a direct child, "nested": deeper, "none": no label element),
\* refuses a folder that stays closed when clicked.
FolderLabels == <<(<<"A">>), (<<" ", "B", " ">>), (<<"C">>), (<<"D">>), (<<"E">>)>>
FileLabels == {<<"x", ".", "ts">>, <<"y", ".", "png">>}
BlankLabel == <<" ">>
LabKinds == {"direct", "nested", "none"}

RECURSIVE AncOrSelf(_, _)
AncOrSelf(t, i) == IF i = 0 THEN {} ELSE {i} \cup AncOrSelf(t, t[i].parent)
Ancestors(t, i) == AncOrSelf(t, t[i].parent)

\* the departures from the plain tree that one node carries
NodeQuirks(nd) ==
    (IF nd.lab # "direct" THEN 1 ELSE 0) + (IF nd.text = BlankLabel THEN 1 ELSE 0)
    + (IF nd.refuses THEN 1 ELSE 0)
RECURSIVE TreeQuirks(_)
TreeQuirks(t) == IF t = <<>> THEN 0 ELSE NodeQuirks(Head(t)) + TreeQuirks(Tail(t))

\* the buttons a next button may hang under: the root, or a folder on the path
\* from the previous button to the root (document order is preorder)
ValidParents(t) ==
    {0} \cup (IF t = <<>> THEN {} ELSE {j \in AncOrSelf(t, Len(t)) : t[j].kind = "folder"})
Siblings(t, p) == {k \in 1..Len(t) : t[k].parent = p}
SiblingTexts(t, p) == {Trim(t[j].text) : j \in Siblings(t, p)}
\* a folder is labelled by its rank among the folders of its parent; a file
\* takes a label no sibling has
NextFolderLabel(t, p) ==
    FolderLabels[Cardinality({k \in Siblings(t, p) : t[k].kind = "folder"}) + 1]
NextNodes(t) ==
    {nd \in [kind : {"folder", "file"}, parent : ValidParents(t),
             text : {NextFolderLabel(t, p) : p \in ValidParents(t)} \cup FileLabels \cup {BlankLabel},
             lab : LabKinds, refuses : BOOLEAN] :
        /\ nd.kind = "folder" => nd.text \in {NextFolderLabel(t, nd.parent), BlankLabel}
        /\ nd.kind = "file" =>
              /\ nd.text \in FileLabels \cup {BlankLabel}
              /\ ~nd.refuses
              /\ nd.text \notin {t[j].text : j \in Siblings(t, nd.parent)} \ {BlankLabel}
        /\ TreeQuirks(t) + NodeQuirks(nd) <= MaxQuirks}
RECURSIVE TreesOf(_)
TreesOf(n) ==
    IF n = 0 THEN {<<>>}
    ELSE UNION {{Append(t, nd) : nd \in NextNodes(t)} : t \in TreesOf(n - 1)}
\* further file names, each alone in the root container: no '.', a trailing
\* '.', an upper-case extension, several '.', a name that starts with '.'
ExtraNames ==
    {<<"Makefile">>, <<"x", ".">>, <<"y", ".", "PNG">>, <<"y", ".", "png", ".", "ts">>,
     <<"x", ".", "ts", ".", "png">>, <<".", "png">>, <<"y", ".", "png", ".">>}
NameTrees ==
    {<<[kind |-> "file", parent |-> 0, text |-> nm, lab |-> "direct", refuses |-> FALSE]>> :
        nm \in ExtraNames}
Trees == UNION {TreesOf(n) : n \in 0..NumNodes} \cup NameTrees

VARIABLES
    engine,         \* which script runs: "v52" or "v61"
    tree,           \* the file tree the surface holds (fixed during a run)
    open,           \* open[i]: folder button i has data-state "open"
    viewer,         \* the content area: code block, copy button, image preview
    clipboard,      \* the text on the system clipboard
    pc,             \* where the script is suspended
    closedFolders,  \* v61 expandAllFolders: the NodeList of the current batch
    bi,             \* v61 expandAllFolders: position in closedFolders
    allItems,       \* v61: the NodeList of all buttons
    idx,            \* v61: position in allItems
    stack,          \* v52: the processDirectory activations (itemsWrappers, position,
                    \* currentPath, and via: the folder buttons currentPath was built from)
    cur,            \* the file being processed (button, itemName, filePath, via, copy clicked)
    zip,            \* zip.files, in insertion order
    outcome,        \* "running", "success", "nothing" (nothing exported), "abort"
    quirks,         \* departures of the surface met during the run (the tree has its own)
    batches,        \* expansion batches run so far (saturating)
    trig,           \* trig[i]: expansion clicks folder i received (saturating)
    log,            \* one record per file processed, in processing order
    clips,          \* one record per pass through the clipboard try block: the file,
                    \* what document.hasFocus() gave, whether readText was called,
                    \* whether it threw
    expanded,       \* v61: what the call expandAllFolders() of the main block
                    \* returned: "true" or "false" ("pending" until it returns)
    settled         \* the milliseconds of the last suspension after a folder click
                    \* or after a batch of them (0 before the first)
vars == <<engine, tree, open, viewer, clipboard, pc, closedFolders, bi, allItems, idx,
          stack, cur, zip, outcome, quirks, batches, trig, log, clips, expanded, settled>>

\* ----------------------------------------------------- the surface, continued
N == Len(tree)
Rendered(i) == \A a \in Ancestors(tree, i) : open[a]
RECURSIVE SeqOfSet(_)
\* the members of a set of buttons in document order
SeqOfSet(S) ==
    IF S = {} THEN <<>>
    ELSE LET m == CHOOSE x \in S : \A y \in S : x <= y IN <<m>> \o SeqOfSet(S \ {m})
IsFolder(i) == tree[i].kind = "folder"
IsFile(i) == tree[i].kind = "file"
\* what a click on a folder button does to the tree: it toggles the folder,
\* except that a refusing folder stays closed
ClickFolder(i) == [open EXCEPT ![i] = IF open[i] THEN FALSE ELSE ~tree[i].refuses]
Bump(f, i) == [f EXCEPT ![i] = IF f[i] < MaxBatches THEN f[i] + 1 ELSE f[i]]

Digits == <<"1", "2", "3", "4", "5", "6">>
\* the text of file i, and the data URI of its preview
Own(i) == <<"code", Digits[i]>>
Payload(i) == <<"iVBOR", Digits[i]>>
Base64Uri(i) == <<"data:", "image/png", ";base64,">> \o Payload(i)
PdfUri(i) == <<"data:", "application/pdf", ";base64,">> \o Payload(i)
EmptyPayloadUri == <<"data:", "image/png", ";base64,">>
NoBase64Uri == <<"data:", "image/svg+xml", ",", "<svg/>">>
HttpUrl == <<"https://", "cdn", "/", "y", ".", "png">>
Boilerplate == <<"Created constants/colors.ts", " ", "Created components/">>
OldClipboard == <<"old clipboard">>
NoViewer == [div |-> FALSE, text |-> <<>>, copy |-> FALSE, img |-> FALSE, src |-> <<>>, of |-> 0]
\* the surface previews files named *.png as images and shows the others as code
ShowsImage(i) ==
    LET nm == ToLowerCase(Trim(tree[i].text)) IN
    Len(nm) >= 2 /\ nm[Len(nm)] = "png" /\ nm[Len(nm) - 1] = "."
PlainViewer(i) ==
    IF ShowsImage(i)
    THEN [div |-> FALSE, text |-> <<>>, copy |-> FALSE, img |-> TRUE, src |-> Base64Uri(i), of |-> i]
    ELSE [div |-> TRUE, text |-> Own(i), copy |-> TRUE, img |-> FALSE, src |-> <<>>, of |-> i]
OddViewers(i) ==
    IF ShowsImage(i)
    THEN {[PlainViewer(i) EXCEPT !.img = FALSE, !.src = <<>>]}
         \cup {[PlainViewer(i) EXCEPT !.src = u] : u \in {PdfUri(i), EmptyPayloadUri, NoBase64Uri, HttpUrl, <<>>}}
    ELSE {[PlainViewer(i) EXCEPT !.text = t, !.copy = c] :
              t \in {Own(i), <<>>, <<" ">>, <<";">>, Boilerplate}, c \in BOOLEAN}
         \cup {[PlainViewer(i) EXCEPT !.div = FALSE, !.text = <<>>, !.copy = c] : c \in BOOLEAN}
\* what the content area holds once the display delay after a click on file i
\* has passed: the file's content, or (a departure) something else, or still
\* what it held before the click
ViewersAfterClick(i) ==
    {PlainViewer(i)}
    \cup (IF quirks < MaxQuirks THEN (OddViewers(i) \cup {viewer}) \ {PlainViewer(i)} ELSE {})
QuirkOf(v, i) == IF v = PlainViewer(i) THEN 0 ELSE 1

Init ==
    /\ engine \in {"v52", "v61"}
    /\ tree \in Trees
    /\ open \in [1..Len(tree) -> BOOLEAN]
    /\ \A i \in 1..Len(tree) : tree[i].kind = "file" => ~open[i]
    /\ TreeQuirks(tree) + Cardinality({i \in 1..Len(tree) : open[i]}) <= MaxQuirks
    /\ quirks = 0
    /\ viewer = NoViewer
    /\ clipboard = OldClipboard
    /\ pc = "load"
    /\ settled = 0
    /\ closedFolders = <<>>
    /\ bi = 0
    /\ allItems = <<>>
    /\ idx = 0
    /\ stack = <<>>
    /\ cur = [node |-> 0, name |-> <<>>, path |-> <<>>, via |-> <<>>, copied |-> FALSE]
    /\ zip = <<>>
    /\ outcome = "running"
    /\ batches = 0
    /\ trig = [i \in 1..Len(tree) |-> 0]
    /\ log = <<>>
    /\ clips = <<>>
    /\ expanded = "pending"

\* --------------------------------------------------------------- the archive
\* an archive that kept every add as an entry of its own
ZipFileAppend(z, path, data, b64) == Append(z, [path |-> path, data |-> data, base64 |-> b64])
\* zip.file(name, data[, {base64: true}]): zip.files is keyed by name, so a
\* second add under a name replaces the entry and keeps its place
ZipFile(z, path, data, b64) ==
    LET e == [path |-> path, data |-> data, base64 |-> b64] IN
    IF \E k \in 1..Len(z) : z[k].path = path
    THEN [k \in 1..Len(z) |-> IF z[k].path = path THEN e ELSE z[k]]
    ELSE Append(z, e)

\* a catch that let the run fall through to the finalization
AbortFallsThrough == /\ outcome' = "abort" /\ pc' = "finalize"
\* the catch of the main block: alert, no archive
Abort == /\ outcome' = "abort" /\ pc' = "done"

\* ------------------------------------------------------------------ v6.1
binaryFileExtensionsV61 ==
    {<<".", e>> : e \in {"png", "jpg", "jpeg", "gif", "bmp", "webp", "svg", "ico",
        "mp3", "wav", "ogg", "aac", "mp4", "mov", "avi", "webm",
        "pdf", "doc", "docx", "xls", "xlsx", "ppt", "pptx",
        "zip", "gz", "tar", "rar", "7z", "woff", "woff2", "eot",
        "ttf", "otf", "exe", "dll", "app", "dmg", "iso"}}

\* loadScript, typeof JSZip check, new JSZip()
LoadScriptV61 ==
    /\ engine = "v61" /\ pc = "load"
    /\ \E loaded \in BOOLEAN :
         IF loaded THEN pc' = "expand_query" /\ UNCHANGED outcome ELSE Abort
    /\ UNCHANGED <<settled, clips, expanded, engine, tree, open, viewer, clipboard, closedFolders, bi, allItems, idx,
                   stack, cur, zip, quirks, batches, trig, log>>

\* the query as it would be without [data-state="closed"]
AnyFolderButtons == SeqOfSet({i \in 1..N : IsFolder(i) /\ Rendered(i)})
\* const folderExpandDelay = 1200, and the 200 of setTimeout(resolve, 200)
folderExpandDelayV61 == 1200
settleDelay == 200
\* querySelectorAll('button[data-radix-collection-item][data-state="closed"]')
ClosedFolderButtons == SeqOfSet({i \in 1..N : IsFolder(i) /\ Rendered(i) /\ ~open[i]})

\* expandAllFolders, up to the start of the for loop
ExpandQuery ==
    /\ engine = "v61" /\ pc = "expand_query"
    /\ LET closed == ClosedFolderButtons IN
         /\ closedFolders' = closed
         /\ IF closed = <<>>
            THEN pc' = "enumerate" /\ bi' = 0 /\ expanded' = "false"
            ELSE pc' = "expand_click" /\ bi' = 1 /\ UNCHANGED expanded
    /\ UNCHANGED <<settled, clips, engine, tree, open, viewer, clipboard, allItems, idx,
                   stack, cur, zip, outcome, quirks, batches, trig, log>>

\* folderButton.click()
ExpandClick ==
    /\ engine = "v61" /\ pc = "expand_click"
    /\ open' = ClickFolder(closedFolders[bi])
    /\ trig' = Bump(trig, closedFolders[bi])
    /\ pc' = "expand_settle"
    /\ UNCHANGED <<settled, clips, expanded, engine, tree, viewer, clipboard, closedFolders, bi, allItems, idx,
                   stack, cur, zip, outcome, quirks, batches, log>>

\* the 200 ms pause after each click, then the next button of the batch
ExpandSettle ==
    /\ engine = "v61" /\ pc = "expand_settle"
    /\ IF bi < Len(closedFolders)
       THEN bi' = bi + 1 /\ pc' = "expand_click"
       ELSE bi' = bi /\ pc' = "batch_settle"
    /\ settled' = settleDelay
    /\ UNCHANGED <<clips, expanded, engine, tree, open, viewer, clipboard, closedFolders, allItems, idx,
                   stack, cur, zip, outcome, quirks, batches, trig, log>>

\* the pause after the batch as it would be with the per-click duration
BatchSettleShort ==
    /\ engine = "v61" /\ pc = "batch_settle"
    /\ batches' = IF batches < MaxBatches THEN batches + 1 ELSE batches
    /\ pc' = "expand_query"
    /\ settled' = settleDelay
    /\ UNCHANGED <<clips, expanded, engine, tree, open, viewer, clipboard, closedFolders, bi, allItems, idx,
                   stack, cur, zip, outcome, quirks, trig, log>>
\* the folderExpandDelay pause after the batch, then the recursive call
BatchSettle ==
    /\ engine = "v61" /\ pc = "batch_settle"
    /\ batches' = IF batches < MaxBatches THEN batches + 1 ELSE batches
    /\ pc' = "expand_query"
    /\ settled' = folderExpandDelayV61
    /\ UNCHANGED <<clips, expanded, engine, tree, open, viewer, clipboard, closedFolders, bi, allItems, idx,
                   stack, cur, zip, outcome, quirks, trig, log>>

\* getFullPath: the buttons whose label the walk puts in path.  The label is
\* read with ":scope > span, :scope > p" (a direct child of the button only);
\* closest('div[role="region"]') and button[aria-controls=...] lead to the
\* button owning the enclosing region (parent, 0 when there is none).
RECURSIVE WalkUp(_, _)
WalkUp(current, path) ==
    LET path1 == IF tree[current].lab = "direct" THEN <<current>> \o path ELSE path
        parentButton == tree[current].parent
    IN  IF parentButton = 0 THEN path1 ELSE WalkUp(parentButton, path1)
\* Array.prototype.pop
Pop(path) == IF path = <<>> THEN path ELSE SubSeq(path, 1, Len(path) - 1)
\* getFullPath as it would be without path.pop()
getFullPathNodesNoPop(buttonElement) == WalkUp(buttonElement, <<>>)
\* getFullPath as it would be with `path` kept from the previous call
getFullPathNodesShared(buttonElement) ==
    cur.via \o (LET path == WalkUp(buttonElement, <<>>) IN
                IF IsFile(buttonElement) THEN Pop(path) ELSE path)
getFullPathNodes(buttonElement) ==
    LET path == WalkUp(buttonElement, <<>>) IN
    IF IsFile(buttonElement) THEN Pop(path) ELSE path
LabelsOf(nodes) == [k \in 1..Len(nodes) |-> Trim(tree[nodes[k]].text)]
getFullPath(buttonElement) ==
    LET path == LabelsOf(getFullPathNodes(buttonElement)) IN
    JoinSlash(path) \o (IF Len(path) > 0 THEN <<"/">> ELSE <<>>)

\* const itemName = nameEl ? nameEl.textContent.trim() : "_unknown_file_"
\* (nameEl is button.querySelector("p.truncate"): at any depth)
itemNameV61(b) == IF tree[b].lab = "none" THEN <<"_unknown_file_">> ELSE Trim(tree[b].text)
fileExtensionV61(itemName) ==
    IF Includes(itemName, ".")
    THEN ToLowerCase(SubstringFrom(itemName, LastIndexOf(itemName, ".")))
    ELSE <<>>
\* the preview the selector img[alt="Image Preview"][src^="data:image/"] finds
ImageMimes == {"image/png", "image/svg+xml"}
imgElementV61(v) == v.img /\ Len(v.src) >= 2 /\ v.src[1] = "data:" /\ v.src[2] \in ImageMimes
\* src.split(';base64,')[1]: what lies between the first separator and the
\* next one (or the end); <<>> also stands for undefined, both are falsy
SplitSecond(src) ==
    LET k == IndexOf(src, ";base64,") IN
    IF k = 0 THEN <<>>
    ELSE LET rest == SubstringFrom(src, k + 1)
             j == IndexOf(rest, ";base64,")
         IN  IF j = 0 THEN rest ELSE SubSeq(rest, 1, j - 1)

\* the entries the archive z holds at the given paths
Written(z, paths) ==
    [k \in 1..Len(paths) |-> CHOOSE e \in {z[j] : j \in 1..Len(z)} : e.path = paths[k]]
\* the record kept of one processed file: the button, its filePath, the buttons
\* whose labels make up the directory part of filePath, what the content area
\* held when it was read, whether the copy button was clicked, how many times
\* the clipboard was read and what it returned, the archive entries written, and
\* whether zip.file threw
LogEntry(view, reads, clipText, added, rejected) ==
    [node |-> cur.node, path |-> cur.path, via |-> cur.via, view |-> view,
     copied |-> cur.copied, reads |-> reads, clipText |-> clipText, added |-> added,
     rejected |-> rejected]
\* what one pass through the clipboard try block did: hasFocus() false -> no
\* read; else readText() is called and returns or throws
ClipRecord(how) ==
    [node |-> cur.node, focus |-> how # "nofocus", read |-> how # "nofocus", threw |-> how = "throws"]
\* how the clipboard step can go: the document has focus and readText returns,
\* or (a fault) the document has no focus, or readText throws
ClipFaults == Cardinality({k \in 1..Len(clips) : ~clips[k].focus \/ clips[k].threw})
ClipOutcomes == {"read"} \cup (IF ClipFaults < MaxClipFaults THEN {"nofocus", "throws"} ELSE {})
\* whether the archive library rejects the content handed to zip.file (a
\* departure; used is what the step has already spent)
Rejections(used) == {FALSE} \cup (IF quirks + used < MaxQuirks THEN {TRUE} ELSE {})

\* const allItems = querySelectorAll('button[data-radix-collection-item]')
EnumerateItems ==
    /\ engine = "v61" /\ pc = "enumerate"
    /\ allItems' = SeqOfSet({i \in 1..N : Rendered(i)})
    /\ IF allItems' = <<>>
       THEN Abort /\ idx' = idx
       ELSE pc' = "item" /\ idx' = 1 /\ UNCHANGED outcome
    /\ UNCHANGED <<settled, clips, expanded, engine, tree, open, viewer, clipboard, closedFolders, bi,
                   stack, cur, zip, quirks, batches, trig, log>>

\* if (!isFile) continue
SkipFolderV61 ==
    /\ engine = "v61" /\ pc = "item" /\ idx <= Len(allItems)
    /\ ~IsFile(allItems[idx])
    /\ idx' = idx + 1
    /\ UNCHANGED <<settled, clips, expanded, engine, tree, open, viewer, clipboard, pc, closedFolders, bi, allItems,
                   stack, cur, zip, outcome, quirks, batches, trig, log>>

\* the selection as it would be in a loop that did not await the handling of
\* the previous file: the next file button is clicked while one is on display
SelectFileV61NoAwait ==
    /\ engine = "v61" /\ pc \in {"item", "display"}
    /\ LET k == IF pc = "item" THEN idx ELSE idx + 1 IN
         /\ k <= Len(allItems)
         /\ IsFile(allItems[k])
         /\ idx' = k
         /\ cur' = [node |-> allItems[k], name |-> itemNameV61(allItems[k]),
                    path |-> getFullPath(allItems[k]) \o itemNameV61(allItems[k]),
                    via |-> getFullPathNodes(allItems[k]), copied |-> FALSE]
         /\ \E v \in ViewersAfterClick(allItems[k]) :
              viewer' = v /\ quirks' = quirks + QuirkOf(v, allItems[k])
    /\ pc' = "display"
    /\ UNCHANGED <<settled, clips, expanded, engine, tree, open, clipboard, closedFolders, bi, allItems,
                   stack, zip, outcome, batches, trig, log>>
\* itemName, folderPath, filePath, button.click()
SelectFileV61 ==
    /\ engine = "v61" /\ pc = "item" /\ idx <= Len(allItems)
    /\ LET button == allItems[idx] IN
         /\ IsFile(button)
         /\ cur' = [node |-> button, name |-> itemNameV61(button),
                    path |-> getFullPath(button) \o itemNameV61(button),
                    via |-> getFullPathNodes(button), copied |-> FALSE]
         /\ \E v \in ViewersAfterClick(button) :
              viewer' = v /\ quirks' = quirks + QuirkOf(v, button)
    /\ pc' = "display"
    /\ UNCHANGED <<settled, clips, expanded, engine, tree, open, clipboard, closedFolders, bi, allItems, idx,
                   stack, zip, outcome, batches, trig, log>>

\* the end of one iteration of the v6.1 loop
DoneFileV61(z, view, reads, clipText, added, used) ==
    /\ zip' = z
    /\ log' = Append(log, LogEntry(view, reads, clipText, Written(z, added), FALSE))
    /\ quirks' = quirks + used
    /\ idx' = idx + 1
    /\ pc' = "item"
    /\ UNCHANGED outcome
\* zip.file(...) threw: the exception reaches the catch of the main block
ThrownV61(view, reads, clipText, used) ==
    /\ Abort
    /\ log' = Append(log, LogEntry(view, reads, clipText, <<>>, TRUE))
    /\ quirks' = quirks + used
    /\ UNCHANGED <<zip, idx>>

\* the binary branch
BinaryV61 ==
    /\ engine = "v61" /\ pc = "display"
    /\ fileExtensionV61(cur.name) \in binaryFileExtensionsV61
    /\ \E rejected \in Rejections(0) :
         IF imgElementV61(viewer)
         THEN LET base64Data == SplitSecond(viewer.src) IN
              IF base64Data # <<>>
              THEN IF rejected THEN ThrownV61(viewer, 0, <<>>, 1)
                   ELSE DoneFileV61(ZipFile(zip, cur.path, base64Data, TRUE), viewer, 0, <<>>,
                                    <<cur.path>>, 0)
              ELSE ~rejected /\ DoneFileV61(zip, viewer, 0, <<>>, <<>>, 0)
         ELSE LET ph == cur.path \o <<"_preview_not_found.txt">> IN
              /\ ~rejected
              /\ DoneFileV61(ZipFile(zip, ph, <<"// Binary file, but preview not found.">>, FALSE),
                             viewer, 0, <<>>, <<ph>>, 0)
    /\ UNCHANGED <<settled, clips, expanded, engine, tree, open, viewer, clipboard, closedFolders, bi, allItems,
                   stack, cur, batches, trig>>

\* if (!code.trim() && codeDiv) code = codeDiv.innerText; then zip.file
StoreTextV61(code0, view, reads, clipText, used) ==
    LET code == IF Trim(code0) = <<>> /\ view.div THEN view.text ELSE code0
        ph == cur.path \o <<"_extraction_failed.txt">>
    IN  IF Trim(code) # <<>>
        THEN \E rejected \in Rejections(used) :
               IF rejected THEN ThrownV61(view, reads, clipText, used + 1)
               ELSE DoneFileV61(ZipFile(zip, cur.path, code, FALSE), view, reads, clipText,
                                <<cur.path>>, used)
        ELSE DoneFileV61(ZipFile(zip, ph, <<"// Code extraction failed.">>, FALSE),
                         view, reads, clipText, <<ph>>, used)

\* the text branch when a copy button is found: copyBtn.click()
CopyV61 ==
    /\ engine = "v61" /\ pc = "display"
    /\ fileExtensionV61(cur.name) \notin binaryFileExtensionsV61
    /\ viewer.copy
    /\ \E copies \in {TRUE} \cup (IF quirks < MaxQuirks THEN {FALSE} ELSE {}) :
         /\ clipboard' = IF copies THEN viewer.text ELSE clipboard
         /\ quirks' = quirks + (IF copies THEN 0 ELSE 1)
    /\ cur' = [cur EXCEPT !.copied = TRUE]
    /\ pc' = "clip_wait"
    /\ UNCHANGED <<settled, clips, expanded, engine, tree, open, viewer, closedFolders, bi, allItems, idx,
                   stack, zip, outcome, batches, trig, log>>

\* the text branch when no copy button is found
NoCopyV61 ==
    /\ engine = "v61" /\ pc = "display"
    /\ fileExtensionV61(cur.name) \notin binaryFileExtensionsV61
    /\ ~viewer.copy
    /\ StoreTextV61(<<>>, viewer, 0, <<>>, 0)
    /\ UNCHANGED <<settled, clips, expanded, engine, tree, open, viewer, clipboard, closedFolders, bi, allItems,
                   stack, cur, batches, trig>>

\* the clipboard step as it would be without the document.hasFocus() test
ClipReadV61NoFocusTest ==
    /\ engine = "v61" /\ pc = "clip_wait"
    /\ \E how \in ClipOutcomes :
         /\ clips' = Append(clips, [ClipRecord(how) EXCEPT !.read = TRUE])
         /\ CASE how = "read" -> StoreTextV61(clipboard, viewer, 1, clipboard, 0)
              [] how = "throws" -> StoreTextV61(<<>>, viewer, 1, <<>>, 0)
              [] how = "nofocus" -> StoreTextV61(clipboard, viewer, 1, clipboard, 0)
    /\ UNCHANGED <<settled, expanded, engine, tree, open, viewer, clipboard, closedFolders, bi, allItems,
                   stack, cur, batches, trig>>
\* after the 200 ms pause: document.hasFocus(), navigator.clipboard.readText()
ClipReadV61 ==
    /\ engine = "v61" /\ pc = "clip_wait"
    /\ \E how \in ClipOutcomes :
         /\ clips' = Append(clips, ClipRecord(how))
         /\ CASE how = "read" -> StoreTextV61(clipboard, viewer, 1, clipboard, 0)
              [] how = "throws" -> StoreTextV61(<<>>, viewer, 1, <<>>, 0)
              [] how = "nofocus" -> StoreTextV61(<<>>, viewer, 0, <<>>, 0)
    /\ UNCHANGED <<settled, expanded, engine, tree, open, viewer, clipboard, closedFolders, bi, allItems,
                   stack, cur, batches, trig>>

\* the end of the loop as it would be if the loop could be left before its
\* last button
LoopEndV61Early ==
    /\ engine = "v61" /\ pc = "item"
    /\ pc' = "finalize"
    /\ UNCHANGED <<settled, clips, expanded, engine, tree, open, viewer, clipboard, closedFolders, bi, allItems, idx,
                   stack, cur, zip, outcome, quirks, batches, trig, log>>
\* the loop is over
LoopEndV61 ==
    /\ engine = "v61" /\ pc = "item" /\ idx > Len(allItems)
    /\ pc' = "finalize"
    /\ UNCHANGED <<settled, clips, expanded, engine, tree, open, viewer, clipboard, closedFolders, bi, allItems, idx,
                   stack, cur, zip, outcome, quirks, batches, trig, log>>

\* Object.keys(zip.files).length > 0 ? generateAsync + download : alert
FinalizeV61 ==
    /\ engine = "v61" /\ pc = "finalize"
    /\ outcome' = IF Len(zip) > 0 THEN "success" ELSE "nothing"
    /\ pc' = "done"
    /\ UNCHANGED <<settled, clips, expanded, engine, tree, open, viewer, clipboard, closedFolders, bi, allItems, idx,
                   stack, cur, zip, quirks, batches, trig, log>>

NextV61 ==
    \/ LoadScriptV61 \/ ExpandQuery \/ ExpandClick \/ ExpandSettle \/ BatchSettle
    \/ EnumerateItems \/ SkipFolderV61 \/ SelectFileV61 \/ BinaryV61 \/ CopyV61 \/ NoCopyV61
    \/ ClipReadV61 \/ LoopEndV61 \/ FinalizeV61

\* ------------------------------------------------------------------ v5.2
\* const folderExpandDelay = 1200
folderExpandDelayV52 == 1200
binaryFileExtensionsV52 ==
    {<<".", e>> : e \in {"png", "jpg", "jpeg", "gif", "bmp", "webp", "svg", "ico",
        "mp3", "wav", "ogg", "aac", "mp4", "mov", "avi", "webm", "mkv",
        "pdf", "doc", "docx", "xls", "xlsx", "ppt", "pptx",
        "zip", "gz", "tar", "rar", "7z", "woff", "woff2", "eot", "ttf", "otf",
        "exe", "dll", "app", "dmg", "iso"}}

\* the item wrappers that are direct children of the container of button p
\* (p = 0: the root container)
Children(p) == SeqOfSet({i \in 1..N : tree[i].parent = p})
Top == stack[Len(stack)]
\* continue: the for loop of the running activation moves to its next wrapper
Continue == [stack EXCEPT ![Len(stack)].i = @ + 1]
\* button.querySelector('span') / button.querySelector('p.truncate'), at any
\* depth; itemName stays "" when the element is missing
itemNameV52(b) == IF tree[b].lab = "none" THEN <<>> ELSE Trim(tree[b].text)
\* the extension as it would be without toLowerCase()
fileExtensionV52CaseSensitive(itemName) ==
    LET dotIndex == LastIndexOf(itemName, ".") IN
    IF dotIndex > 0 /\ dotIndex < Len(itemName) THEN SubstringFrom(itemName, dotIndex) ELSE <<>>
fileExtensionV52(itemName) ==
    LET dotIndex == LastIndexOf(itemName, ".") IN
    IF dotIndex > 0 /\ dotIndex < Len(itemName)
    THEN ToLowerCase(SubstringFrom(itemName, dotIndex))
    ELSE <<>>
\* the sanity check applied to the direct text and to the clipboard text
Acceptable(text) ==
    /\ CharLen(Trim(text)) > 1
    /\ ~(Includes(text, "Created constants/colors.ts") /\ Includes(text, "Created components/"))

\* loadScript, typeof JSZip check, new JSZip()
LoadScriptV52 ==
    /\ engine = "v52" /\ pc = "load"
    /\ \E loaded \in BOOLEAN :
         IF loaded THEN pc' = "root" /\ UNCHANGED outcome ELSE Abort
    /\ UNCHANGED <<settled, clips, expanded, engine, tree, open, viewer, clipboard, closedFolders, bi, allItems, idx,
                   stack, cur, zip, quirks, batches, trig, log>>

\* rootFileTreeContainer, then processDirectory(rootFileTreeContainer, '', zip)
FindRootV52 ==
    /\ engine = "v52" /\ pc = "root"
    /\ \E found \in BOOLEAN :
         IF found
         THEN /\ stack' = <<[items |-> Children(0), i |-> 1, path |-> <<>>, via |-> <<>>]>>
              /\ pc' = "pd"
              /\ UNCHANGED outcome
         ELSE Abort /\ UNCHANGED stack
    /\ UNCHANGED <<settled, clips, expanded, engine, tree, open, viewer, clipboard, closedFolders, bi, allItems, idx,
                   cur, zip, quirks, batches, trig, log>>

\* if (!itemName) continue
SkipUnnamedV52 ==
    /\ engine = "v52" /\ pc = "pd" /\ Top.i <= Len(Top.items)
    /\ itemNameV52(Top.items[Top.i]) = <<>>
    /\ stack' = Continue
    /\ UNCHANGED <<settled, clips, expanded, engine, tree, open, viewer, clipboard, pc, closedFolders, bi, allItems, idx,
                   cur, zip, outcome, quirks, batches, trig, log>>

\* processDirectory(nextLevelContainer, folderPath, zip) when the content
\* region of the folder is open, else the warning and the next wrapper
Descend(button, op) ==
    IF op[button]
    THEN stack' = Append(stack, [items |-> Children(button), i |-> 1,
                                 path |-> Top.path \o itemNameV52(button) \o <<"/">>,
                                 via |-> Append(Top.via, button)])
    ELSE stack' = Continue

\* a folder that is not closed: no click
FolderOpenV52 ==
    /\ engine = "v52" /\ pc = "pd" /\ Top.i <= Len(Top.items)
    /\ LET button == Top.items[Top.i] IN
         /\ IsFolder(button) /\ itemNameV52(button) # <<>>
         /\ open[button]
         /\ Descend(button, open)
    /\ UNCHANGED <<settled, clips, expanded, engine, tree, open, viewer, clipboard, pc, closedFolders, bi, allItems, idx,
                   cur, zip, outcome, quirks, batches, trig, log>>

\* the click as it would be without the test of data-state / aria-expanded:
\* every named folder is clicked
FolderClickV52Untested ==
    /\ engine = "v52" /\ pc = "pd" /\ Top.i <= Len(Top.items)
    /\ LET button == Top.items[Top.i] IN
         /\ IsFolder(button) /\ itemNameV52(button) # <<>>
         /\ open' = ClickFolder(button)
         /\ trig' = Bump(trig, button)
    /\ pc' = "folder_settle"
    /\ UNCHANGED <<settled, clips, expanded, engine, tree, viewer, clipboard, closedFolders, bi, allItems, idx,
                   stack, cur, zip, outcome, quirks, batches, log>>
\* a closed folder: button.click()
FolderClickV52 ==
    /\ engine = "v52" /\ pc = "pd" /\ Top.i <= Len(Top.items)
    /\ LET button == Top.items[Top.i] IN
         /\ IsFolder(button) /\ itemNameV52(button) # <<>>
         /\ ~open[button]
         /\ open' = ClickFolder(button)
         /\ trig' = Bump(trig, button)
    /\ pc' = "folder_settle"
    /\ UNCHANGED <<settled, clips, expanded, engine, tree, viewer, clipboard, closedFolders, bi, allItems, idx,
                   stack, cur, zip, outcome, quirks, batches, log>>

\* the step after folderExpandDelay as it would be with neither the second
\* look at data-state nor the test of the content region
FolderSettleV52Untested ==
    /\ engine = "v52" /\ pc = "folder_settle"
    /\ LET button == Top.items[Top.i] IN
         stack' = Append(stack, [items |-> Children(button), i |-> 1,
                                 path |-> Top.path \o itemNameV52(button) \o <<"/">>,
                                 via |-> Append(Top.via, button)])
    /\ pc' = "pd"
    /\ settled' = folderExpandDelayV52
    /\ UNCHANGED <<clips, expanded, engine, tree, open, viewer, clipboard, closedFolders, bi, allItems, idx,
                   cur, zip, outcome, quirks, batches, trig, log>>
\* after folderExpandDelay: still closed -> continue, else descend
FolderSettleV52 ==
    /\ engine = "v52" /\ pc = "folder_settle"
    /\ LET button == Top.items[Top.i] IN
         IF ~open[button] THEN stack' = Continue ELSE Descend(button, open)
    /\ pc' = "pd"
    /\ settled' = folderExpandDelayV52
    /\ UNCHANGED <<clips, expanded, engine, tree, open, viewer, clipboard, closedFolders, bi, allItems, idx,
                   cur, zip, outcome, quirks, batches, trig, log>>

\* filePath, fileExtension, button.click()
SelectFileV52 ==
    /\ engine = "v52" /\ pc = "pd" /\ Top.i <= Len(Top.items)
    /\ LET button == Top.items[Top.i] IN
         /\ IsFile(button) /\ itemNameV52(button) # <<>>
         /\ cur' = [node |-> button, name |-> itemNameV52(button),
                    path |-> Top.path \o itemNameV52(button), via |-> Top.via, copied |-> FALSE]
         /\ \E v \in ViewersAfterClick(button) :
              viewer' = v /\ quirks' = quirks + QuirkOf(v, button)
    /\ pc' = "display"
    /\ UNCHANGED <<settled, clips, expanded, engine, tree, open, clipboard, closedFolders, bi, allItems, idx,
                   stack, zip, outcome, batches, trig, log>>

\* the end of the file branch: the loop moves to the next wrapper
DoneFileV52(z, view, reads, clipText, added, used) ==
    /\ zip' = z
    /\ log' = Append(log, LogEntry(view, reads, clipText, Written(z, added), FALSE))
    /\ quirks' = quirks + used
    /\ stack' = Continue
    /\ pc' = "pd"
    /\ UNCHANGED outcome

\* catch (zipError): the placeholder is added and the loop goes on
CaughtV52(z, view, added) ==
    /\ zip' = z
    /\ log' = Append(log, LogEntry(view, 0, <<>>, Written(z, added), TRUE))
    /\ quirks' = quirks + 1
    /\ stack' = Continue
    /\ pc' = "pd"
    /\ UNCHANGED outcome

\* the binary branch
BinaryV52 ==
    /\ engine = "v52" /\ pc = "display"
    /\ fileExtensionV52(cur.name) \in binaryFileExtensionsV52
    /\ IF viewer.img /\ viewer.src # <<>> /\ viewer.src[1] = "data:"
       THEN LET dataUrl == viewer.src
                base64Index == IndexOf(dataUrl, ";base64,")
            IN  IF base64Index > 0
                THEN LET base64Data == SubstringFrom(dataUrl, base64Index + 1)
                         ph == cur.path \o <<"_zip_error.txt">>
                     IN  \E rejected \in Rejections(0) :
                           IF rejected
                           THEN CaughtV52(ZipFile(zip, ph, <<"// Failed to add binary data">>, FALSE),
                                          viewer, <<ph>>)
                           ELSE DoneFileV52(ZipFile(zip, cur.path, base64Data, TRUE),
                                            viewer, 0, <<>>, <<cur.path>>, 0)
                ELSE LET ph == cur.path \o <<"_preview_not_base64.txt">> IN
                     DoneFileV52(ZipFile(zip, ph, <<"// Image preview found, but it was not Base64 encoded.">>, FALSE),
                                 viewer, 0, <<>>, <<ph>>, 0)
       ELSE LET ph == cur.path \o <<"_preview_not_found.txt">> IN
            DoneFileV52(ZipFile(zip, ph, <<"// Binary file detected, but preview image with Data URL was not found.">>, FALSE),
                        viewer, 0, <<>>, <<ph>>, 0)
    /\ UNCHANGED <<settled, clips, expanded, engine, tree, open, viewer, clipboard, closedFolders, bi, allItems, idx,
                   cur, batches, trig>>

\* StoreTextV52 as it would be if a failed extraction threw instead of adding
\* the placeholder
StoreTextV52Throws(code, view, reads, clipText, used) ==
    IF Trim(code) # <<>>
    THEN DoneFileV52(ZipFile(zip, cur.path, code, FALSE), view, reads, clipText,
                     <<cur.path>>, used)
    ELSE /\ Abort
         /\ log' = Append(log, LogEntry(view, reads, clipText, <<>>, FALSE))
         /\ quirks' = quirks + used
         /\ UNCHANGED <<zip, stack>>
\* "Add extracted code (or error placeholder) to ZIP"; zip.file(filePath, code)
\* is outside any try, so a rejection reaches the catch of the main block
StoreTextV52(code, view, reads, clipText, used) ==
    LET ph == cur.path \o <<"_extraction_failed.txt">> IN
    IF Trim(code) # <<>>
    THEN \E rejected \in Rejections(used) :
           IF rejected
           THEN /\ Abort
                /\ log' = Append(log, LogEntry(view, reads, clipText, <<>>, TRUE))
                /\ quirks' = quirks + used + 1
                /\ UNCHANGED <<zip, stack>>
           ELSE DoneFileV52(ZipFile(zip, cur.path, code, FALSE), view, reads, clipText,
                            <<cur.path>>, used)
    ELSE DoneFileV52(ZipFile(zip, ph, <<"// Code extraction failed">>, FALSE),
                     view, reads, clipText, <<ph>>, used)
\* the direct read of the code block: codeDiv.innerText when it passes the check
DirectTextV52(view) == IF view.div /\ Acceptable(view.text) THEN view.text ELSE <<>>
\* if (!code.trim() && codeDiv) code = codeDiv.innerText
FallbackV52(code, view) == IF Trim(code) = <<>> /\ view.div THEN view.text ELSE code

\* the direct text is taken: no clipboard fallback
DirectV52 ==
    /\ engine = "v52" /\ pc = "display"
    /\ fileExtensionV52(cur.name) \notin binaryFileExtensionsV52
    /\ Trim(DirectTextV52(viewer)) # <<>>
    /\ StoreTextV52(DirectTextV52(viewer), viewer, 0, <<>>, 0)
    /\ UNCHANGED <<settled, clips, expanded, engine, tree, open, viewer, clipboard, closedFolders, bi, allItems, idx,
                   cur, batches, trig>>

\* the direct text is not taken and a copy button is found: copyBtn.click()
CopyV52 ==
    /\ engine = "v52" /\ pc = "display"
    /\ fileExtensionV52(cur.name) \notin binaryFileExtensionsV52
    /\ Trim(DirectTextV52(viewer)) = <<>>
    /\ viewer.copy
    /\ \E copies \in {TRUE} \cup (IF quirks < MaxQuirks THEN {FALSE} ELSE {}) :
         /\ clipboard' = IF copies THEN viewer.text ELSE clipboard
         /\ quirks' = quirks + (IF copies THEN 0 ELSE 1)
    /\ cur' = [cur EXCEPT !.copied = TRUE]
    /\ pc' = "clip_wait"
    /\ UNCHANGED <<settled, clips, expanded, engine, tree, open, viewer, closedFolders, bi, allItems, idx,
                   stack, zip, outcome, batches, trig, log>>

\* the direct text is not taken and no copy button is found
NoCopyV52 ==
    /\ engine = "v52" /\ pc = "display"
    /\ fileExtensionV52(cur.name) \notin binaryFileExtensionsV52
    /\ Trim(DirectTextV52(viewer)) = <<>>
    /\ ~viewer.copy
    /\ StoreTextV52(FallbackV52(<<>>, viewer), viewer, 0, <<>>, 0)
    /\ UNCHANGED <<settled, clips, expanded, engine, tree, open, viewer, clipboard, closedFolders, bi, allItems, idx,
                   cur, batches, trig>>

\* the clipboard step as it would be with readText() outside the try block
ClipReadV52Escalates ==
    /\ engine = "v52" /\ pc = "clip_wait"
    /\ \E how \in ClipOutcomes :
         /\ clips' = Append(clips, ClipRecord(how))
         /\ CASE how = "read" ->
                   StoreTextV52(IF Acceptable(clipboard) THEN clipboard ELSE FallbackV52(<<>>, viewer),
                                viewer, 1, clipboard, 0)
              [] how = "throws" ->
                   /\ Abort
                   /\ log' = Append(log, LogEntry(viewer, 1, <<>>, <<>>, FALSE))
                   /\ quirks' = quirks
                   /\ UNCHANGED <<zip, stack>>
              [] how = "nofocus" -> StoreTextV52(FallbackV52(<<>>, viewer), viewer, 0, <<>>, 0)
    /\ UNCHANGED <<settled, expanded, engine, tree, open, viewer, clipboard, closedFolders, bi, allItems, idx,
                   cur, batches, trig>>
\* after the 300 ms pause: document.hasFocus(), navigator.clipboard.readText(),
\* the sanity check on the clipboard text, the fallbacks
ClipReadV52 ==
    /\ engine = "v52" /\ pc = "clip_wait"
    /\ \E how \in ClipOutcomes :
         /\ clips' = Append(clips, ClipRecord(how))
         /\ CASE how = "read" ->
                   StoreTextV52(IF Acceptable(clipboard) THEN clipboard ELSE FallbackV52(<<>>, viewer),
                                viewer, 1, clipboard, 0)
              [] how = "throws" -> StoreTextV52(FallbackV52(<<>>, viewer), viewer, 1, <<>>, 0)
              [] how = "nofocus" -> StoreTextV52(FallbackV52(<<>>, viewer), viewer, 0, <<>>, 0)
    /\ UNCHANGED <<settled, expanded, engine, tree, open, viewer, clipboard, closedFolders, bi, allItems, idx,
                   cur, batches, trig>>

\* the for loop of an activation is over: return to the caller, which moves
\* to its next wrapper; the outermost return leads to the end of the main block
ReturnV52 ==
    /\ engine = "v52" /\ pc = "pd" /\ Top.i > Len(Top.items)
    /\ IF Len(stack) = 1
       THEN stack' = <<>> /\ pc' = "finalize"
       ELSE /\ stack' = [SubSeq(stack, 1, Len(stack) - 1) EXCEPT ![Len(stack) - 1].i = @ + 1]
            /\ pc' = "pd"
    /\ UNCHANGED <<settled, clips, expanded, engine, tree, open, viewer, clipboard, closedFolders, bi, allItems, idx,
                   cur, zip, outcome, quirks, batches, trig, log>>

\* a finalization that encodes and downloads whatever the archive holds
FinalizeV52Unguarded ==
    /\ engine = "v52" /\ pc = "finalize"
    /\ outcome' = "success"
    /\ pc' = "done"
    /\ UNCHANGED <<settled, clips, expanded, engine, tree, open, viewer, clipboard, closedFolders, bi, allItems, idx,
                   stack, cur, zip, quirks, batches, trig, log>>
\* Object.keys(zip.files).length > 0 ? generateAsync + download : alert
FinalizeV52 ==
    /\ engine = "v52" /\ pc = "finalize"
    /\ outcome' = IF Len(zip) > 0 THEN "success" ELSE "nothing"
    /\ pc' = "done"
    /\ UNCHANGED <<settled, clips, expanded, engine, tree, open, viewer, clipboard, closedFolders, bi, allItems, idx,
                   stack, cur, zip, quirks, batches, trig, log>>

NextV52 ==
    \/ LoadScriptV52 \/ FindRootV52 \/ SkipUnnamedV52 \/ FolderOpenV52 \/ FolderClickV52
    \/ FolderSettleV52 \/ SelectFileV52 \/ BinaryV52 \/ DirectV52 \/ CopyV52 \/ NoCopyV52
    \/ ClipReadV52 \/ ReturnV52 \/ FinalizeV52

Next == NextV52 \/ NextV61
Spec == Init /\ [][Next]_vars
\* one flow of control; every timer and every awaited promise completes
FairSpec == Spec /\ WF_vars(Next)
\* the runs of each script alone
InitV52 == Init /\ engine = "v52"
InitV61 == Init /\ engine = "v61"
SpecV52 == InitV52 /\ [][NextV52]_vars
SpecV61 == InitV61 /\ [][NextV61]_vars
FairSpecV52 == SpecV52 /\ WF_vars(NextV52)
FairSpecV61 == SpecV61 /\ WF_vars(NextV61)

\* ===================================================================== claims
Files == {i \in 1..N : IsFile(i)}
Folders == {i \in 1..N : IsFolder(i)}
\* the enclosing containers of a button, outermost first
RECURSIVE Chain(_)
Chain(i) == IF tree[i].parent = 0 THEN <<>> ELSE Append(Chain(tree[i].parent), tree[i].parent)
RECURSIVE DirOf(_)
DirOf(nodes) ==
    IF nodes = <<>> THEN <<>> ELSE Trim(tree[Head(nodes)].text) \o <<"/">> \o DirOf(Tail(nodes))
\* the names of the enclosing containers, outermost first, then the leaf's name
ExpectedPath(i) == DirOf(Chain(i)) \o Trim(tree[i].text)
IsBinaryLeaf(i) == ShowsImage(i)
ExpectedEntry(i) ==
    IF IsBinaryLeaf(i)
    THEN [path |-> ExpectedPath(i), data |-> Payload(i), base64 |-> TRUE]
    ELSE [path |-> ExpectedPath(i), data |-> Own(i), base64 |-> FALSE]
Entries == {zip[k] : k \in 1..Len(zip)}
Logged == {log[k] : k \in 1..Len(log)}
Completed == pc = "done" /\ outcome # "abort"
\* no container refuses, every label is present, readable and where both
\* scripts look for it
PlainTree ==
    \A i \in 1..N : ~tree[i].refuses /\ tree[i].lab = "direct" /\ tree[i].text # BlankLabel
\* every text leaf showed its own text in the code block, every binary leaf its
\* base64 data:image URI in the preview, and the archive library took every add
PlainReads == \A r \in Logged : r.view = PlainViewer(r.node) /\ ~r.rejected

\* C1 -- End to end: on a tree where no container refuses, every name is
\* readable, every text leaf's direct read is its acceptable text and every
\* binary leaf's preview is a base64 data URI, the archive of a completed run
\* holds exactly one entry per leaf, at the path of its containers' names and
\* its own name, carrying the leaf's text or the payload of its preview.
C1_EndToEnd ==
    (Completed /\ PlainTree /\ PlainReads)
        => (Len(zip) = Cardinality(Files) /\ Entries = {ExpectedEntry(i) : i \in Files})
\* the same statement for the recursive engine of script.js alone
C1_EndToEndV52 == engine = "v52" => C1_EndToEnd

\* how a processed file fared, read off its log record
ItemName(r) == IF engine = "v52" THEN itemNameV52(r.node) ELSE itemNameV61(r.node)
BinaryClass(r) == fileExtensionV52(ItemName(r)) \in binaryFileExtensionsV52
DirectOk(r) == r.view.div /\ Acceptable(r.view.text)
ClipOk(r) == r.reads = 1 /\ Acceptable(r.clipText)
IsBase64DataUri(src) == src # <<>> /\ src[1] = "data:" /\ Includes(src, ";base64,")
TextFailed(r) == ~BinaryClass(r) /\ ~DirectOk(r) /\ ~ClipOk(r)
PreviewAbsent(r) == BinaryClass(r) /\ ~r.view.img
PreviewUndecodable(r) == BinaryClass(r) /\ r.view.img /\ ~IsBase64DataUri(r.view.src)
LeafFailed(r) == TextFailed(r) \/ PreviewAbsent(r) \/ PreviewUndecodable(r)
Readable(i) == tree[i].lab # "none" /\ Trim(tree[i].text) # <<>>
\* the leaves a run that reaches its end has to go through: all of them for
\* v6.1 (the expansion has ended), those v5.2 can name and reach
Exportable(i) ==
    /\ IsFile(i)
    /\ engine = "v52" =>
         /\ Readable(i)
         /\ \A a \in Ancestors(tree, i) : Readable(a) /\ (open[a] \/ ~tree[a].refuses)
NoRejection == \A r \in Logged : ~r.rejected
SomeLeafFailed == \E r \in Logged : LeafFailed(r)
C2_Safe ==
    (SomeLeafFailed /\ NoRejection)
        => /\ outcome # "abort"
           /\ pc = "done" => \A i \in 1..N : Exportable(i) => \E r \in Logged : r.node = i

\* C2 -- A failure confined to one leaf (both text strategies yield nothing,
\* preview absent, preview not decodable) never aborts the run: unless the
\* archive library rejects an add, the run is not aborted, it reaches its end,
\* and at its end every leaf has been processed.
C2_LeafFailureNeverAborts == [](C2_Safe) /\ (SomeLeafFailed ~> pc = "done")
\* a leaf failed, a later leaf was processed, and the archive was produced
C2_Witness ==
    /\ pc = "done" /\ outcome = "success"
    /\ \E k \in 1..Len(log) : k < Len(log) /\ LeafFailed(log[k]) /\ ~LeafFailed(log[Len(log)])

IsBoilerplate(text) ==
    Includes(text, "Created constants/colors.ts") /\ Includes(text, "Created components/")
ExtractionFailedPath(r) == r.path \o <<"_extraction_failed.txt">>
AddedPaths(r) == [k \in 1..Len(r.added) |-> r.added[k].path]

\* C3 -- False-positive filter: text matching the boilerplate signature (it
\* contains both "Created constants/colors.ts" and "Created components/") is
\* rejected by the direct-read and by the clipboard strategy, the entry
\* recorded for the leaf is then a Placeholder, and the boilerplate is never
\* recorded as a leaf's content.
C3_FalsePositiveFilter ==
    /\ \A e \in Entries : ~IsBoilerplate(e.data)
    /\ \A r \in Logged :
         (~BinaryClass(r) /\ r.view.div /\ IsBoilerplate(r.view.text) /\ ~ClipOk(r) /\ ~r.rejected)
             => AddedPaths(r) = <<ExtractionFailedPath(r)>>

\* C4 -- Strategy precedence: when the direct read of a text leaf returns
\* acceptable text, no copy action is triggered, the clipboard is not read for
\* that leaf, and the recorded payload is the direct-read text.
C4_StrategyPrecedence ==
    /\ (pc = "clip_wait" /\ cur.copied) => ~DirectOk([view |-> viewer])
    /\ \A r \in Logged :
         (~BinaryClass(r) /\ DirectOk(r))
             => /\ ~r.copied /\ r.reads = 0
                /\ ~r.rejected => r.added = <<[path |-> r.path, data |-> r.view.text, base64 |-> FALSE]>>

Refusing(i) == IsFolder(i) /\ tree[i].refuses
\* the leaves below a container that stayed closed when it was clicked
UnderStalled(i) == \E a \in Ancestors(tree, i) : Refusing(a) /\ ~open[a] /\ trig[a] > 0
C5_Safe == \A r \in Logged : ~UnderStalled(r.node)

\* C5 -- Stall safety: with a container that still reports Collapsed after
\* every expansion trigger, expansion terminates, the run goes on to its end,
\* and the leaves under that container contribute no archive entry.
C5_StallSafety ==
    (\E i \in 1..N : Refusing(i)) => (<>(pc = "done") /\ [](C5_Safe))

NoRefusal == \A i \in 1..N : ~tree[i].refuses
ExpansionOver == pc \in {"enumerate", "item", "display", "clip_wait", "finalize"}
C6_Safe ==
    (engine = "v61" /\ NoRefusal)
        => /\ batches <= Cardinality(Folders)
           /\ ExpansionOver => \A i \in Folders : open[i]

\* C6 -- Fixed-point termination: on a tree with N containers none of which
\* refuses to open, expandAll ends after at most N expansion batches, and when
\* it has ended no container is Collapsed.
C6_FixedPoint ==
    /\ [](C6_Safe)
    /\ (engine = "v61" /\ NoRefusal) => <>(ExpansionOver \/ pc = "done")
\* a chain of containers that took as many batches as there are containers
C6_Witness ==
    /\ engine = "v61" /\ NoRefusal /\ pc = "enumerate"
    /\ Cardinality(Folders) >= 2 /\ batches = Cardinality(Folders)

InSeq(x, q) == \E k \in 1..Len(q) : q[k] = x
\* C7 -- The path resolved for a leaf never holds the leaf's own name as a
\* segment contributed by the resolver: the directory part of filePath is made
\* of the labels of other buttons, and the leaf's name comes once, last,
\* appended by the caller.
C7_LeafNotInPath ==
    /\ pc \in {"display", "clip_wait"}
         => /\ ~InSeq(cur.node, cur.via)
            /\ cur.path = DirOf(cur.via) \o cur.name
    /\ \A r \in Logged : ~InSeq(r.node, r.via)
\* getFullPath put the leaf's own label in path and took it out again
C7_Witness ==
    /\ engine = "v61" /\ pc = "display"
    /\ tree[cur.node].lab = "direct" /\ Len(cur.via) >= 1
    /\ WalkUp(cur.node, <<>>) = Append(cur.via, cur.node)

UniquePaths(z) == \A j, k \in 1..Len(z) : z[j].path = z[k].path => j = k
\* z2 is z after one add of entry e: e replaces the entry at its path, in
\* place, or comes last when the path is new; nothing else moves
AfterAdd(z, e, z2) ==
    IF \E k \in 1..Len(z) : z[k].path = e.path
    THEN /\ Len(z2) = Len(z)
         /\ \A k \in 1..Len(z) : z2[k] = IF z[k].path = e.path THEN e ELSE z[k]
    ELSE z2 = Append(z, e)
C9_BinaryExtraction ==
    \A r \in Logged :
        (BinaryClass(r) /\ r.view.img /\ IsBase64DataUri(r.view.src) /\ ~r.rejected /\ PlainTree)
            => r.added = <<[path |-> ExpectedPath(r.node),
                            data |-> SubstringFrom(r.view.src, IndexOf(r.view.src, ";base64,") + 1),
                            base64 |-> TRUE]>>

\* C10 -- Binary failure sub-cases stay distinguishable: with no preview
\* element the 'no preview' placeholder is recorded; with a preview element
\* whose payload is not in the expected base64 encoding the 'preview present
\* but not decodable' placeholder is recorded, never the 'no preview' one.
C10_BinaryFailureVariants ==
    \A r \in Logged :
        BinaryClass(r) =>
            /\ ~r.view.img => AddedPaths(r) = <<r.path \o <<"_preview_not_found.txt">>>>
            /\ (r.view.img /\ ~IsBase64DataUri(r.view.src))
                 => AddedPaths(r) = <<r.path \o <<"_preview_not_base64.txt">>>>

\* C11 -- When the direct read of a text leaf is rejected or empty and the
\* clipboard attempt yields nothing (no copy control, no focus, the read
\* throws, the clipboard text is rejected), the entry recorded for the leaf is
\* the diagnostic Placeholder and no entry with text content is recorded.
C11_BothFailPlaceholder ==
    \A r \in Logged :
        (TextFailed(r) /\ ~r.rejected) => AddedPaths(r) = <<ExtractionFailedPath(r)>>

\* a global failure: the run was aborted and no add was rejected by the
\* archive library (JSZip missing, root container missing, no button found)
GlobalFailure == outcome = "abort" /\ NoRejection
C12_Safe ==
    GlobalFailure
        => /\ pc = "done" /\ zip = <<>> /\ log = <<>> /\ cur.node = 0
           /\ viewer = NoViewer
\* C12 -- A global failure (archive library unavailable, root structure not
\* found, no node found at all) aborts the run before any artifact is
\* produced: nothing has been recorded or selected when it occurs, and once
\* the run is aborted no step follows (no encoding, no download, no selection).
C12_GlobalFailureAborts == [](C12_Safe) /\ [][outcome # "abort"]_vars
\* the root container was not found although the tree has files
C12_Witness == GlobalFailure /\ engine = "v52" /\ Files # {}

\* C13 -- When no entry was added during the run, finalization encodes
\* nothing and triggers no download, and the run ends in the 'nothing
\* exported' outcome, which is neither the success nor the abort outcome;
\* with at least one entry the run ends in the success outcome.
C13_NothingExported ==
    /\ outcome \in {"running", "success", "nothing", "abort"}
    /\ outcome = "running" <=> pc # "done"
    /\ (pc = "done" /\ outcome # "abort") => (outcome = "nothing" <=> zip = <<>>)
    /\ outcome = "success" => zip # <<>>
\* files were processed, none of them added an entry, and the run ended
C13_Witness == pc = "done" /\ outcome = "nothing" /\ Files # {}

Clips == {clips[k] : k \in 1..Len(clips)}
\* the texts a leaf can be recorded with when the clipboard gave nothing
NoClipTexts(r) == {r.view.text, <<"// Code extraction failed.">>, <<"// Code extraction failed">>}
\* C14 -- The clipboard is read only when the document has focus at that
\* moment and at most once per leaf; when focus is absent or the read throws,
\* the clipboard attempt contributes no text and is not repeated.
C14_ClipboardOnlyWithFocus ==
    /\ \A c \in Clips : c.read => c.focus
    /\ \A j, k \in 1..Len(clips) : clips[j].node = clips[k].node => j = k
    /\ \A r \in Logged :
         /\ r.reads = Cardinality({c \in Clips : c.node = r.node /\ c.read})
         /\ r.reads <= 1
         /\ \A c \in Clips :
              (c.node = r.node /\ (~c.focus \/ c.threw))
                  => /\ r.clipText = <<>>
                     /\ \A k \in 1..Len(r.added) : r.added[k].data \in NoClipTexts(r)
\* the document had lost focus when a leaf's clipboard step came, and the
\* leaf was recorded from the code block
C14_Witness ==
    \E r \in Logged : \E c \in Clips :
        /\ c.node = r.node /\ ~c.focus /\ ~c.read
        /\ r.copied /\ Len(r.added) = 1 /\ r.added[1].data = r.view.text
        /\ r.view.text # clipboard

SomeReadThrew == \E c \in Clips : c.threw
C15_Safe ==
    (SomeReadThrew /\ NoRejection)
        => /\ outcome # "abort"
           /\ pc = "done" => \A i \in 1..N : Exportable(i) => \E r \in Logged : r.node = i
\* C15 -- An exception thrown by the clipboard read while a leaf is processed
\* stays with that leaf: the run is not aborted because of it, the leaves
\* that follow are processed, and the end of the run is reached.
C15_ClipboardThrowContained == [](C15_Safe) /\ (SomeReadThrew ~> pc = "done")
\* the read threw for a leaf, a later leaf was processed, the archive was made
C15_Witness ==
    /\ pc = "done" /\ outcome = "success"
    /\ \E k \in 1..Len(log) : k < Len(log) /\ \E c \in Clips : c.node = log[k].node /\ c.threw

\* the binary-extension set the running script is configured with
ConfiguredSet == IF engine = "v52" THEN binaryFileExtensionsV52 ELSE binaryFileExtensionsV61
\* Binary: the name has a '.', and what runs from its last '.' to its end,
\* lower-cased, is in the set
ClassBinary(name) ==
    /\ Includes(name, ".")
    /\ ToLowerCase(SubstringFrom(name, LastIndexOf(name, "."))) \in ConfiguredSet
TookBinaryBranch == BinaryV52 \/ BinaryV61
TookTextBranch == DirectV52 \/ CopyV52 \/ NoCopyV52 \/ CopyV61 \/ NoCopyV61
\* C16 -- classify is a pure function of the leaf's name: the leaf is handled
\* as Binary if and only if the substring from the last '.' of its name to the
\* end, lower-cased, is in the configured binary-extension set; a name without
\* '.', a name ending in '.', and a name with another extension are Text,
\* whatever the surface shows and whatever leaves came before.
C16_ClassifyPure ==
    [][/\ TookBinaryBranch => ClassBinary(cur.name)
       /\ TookTextBranch => ~ClassBinary(cur.name)]_vars
\* a leaf named y.PNG went through the binary branch
C16_Witness ==
    \E r \in Logged :
        /\ ItemName(r) = <<"y", ".", "PNG">>
        /\ Len(r.added) = 1 /\ r.added[1].base64

\* resolving again, in the present state, gives what the first resolution gave
SameAgain(node, via, path) ==
    /\ via = getFullPathNodes(node)
    /\ path = getFullPath(node) \o itemNameV61(node)
C17_Safe ==
    engine = "v61"
        => /\ \A r \in Logged : SameAgain(r.node, r.via, r.path)
           /\ pc \in {"display", "clip_wait"} => SameAgain(cur.node, cur.via, cur.path)
SomeTrigger == \E i \in 1..N : trig[i] > 0
\* C18 -- expandAll returns true if and only if at least one expansion trigger
\* was issued during the call; it returns false only when its first query
\* found no collapsed container.
C18_ExpandAllReturn ==
    (engine = "v61" /\ expanded # "pending")
        => /\ expanded = "true" <=> SomeTrigger
           /\ expanded = "false" => batches = 0

\* the path has no empty segment: it is not empty, neither starts nor ends
\* with the separator, and holds no two separators in a row
NoEmptySegment(path) ==
    /\ path # <<>>
    /\ path[1] # "/" /\ path[Len(path)] # "/"
    /\ \A k \in 1..(Len(path) - 1) : ~(path[k] = "/" /\ path[k + 1] = "/")
\* C19 -- Every archive entry path is a '/'-joined sequence of non-empty
\* segments with no leading separator, and every entry was recorded for a
\* leaf: no entry stands for a container, and a container without leaves
\* contributes nothing.
C19_EntryPaths ==
    \A e \in Entries :
        /\ NoEmptySegment(e.path)
        /\ \E r \in Logged : IsFile(r.node) /\ InSeq(e, r.added)

C20_Safe ==
    /\ \A j, k \in 1..Len(log) : j < k => log[j].node < log[k].node
    /\ (NoRefusal /\ cur.node # 0) => \A f \in Folders : open[f]
\* C20 -- Expansion runs to completion before extraction starts: no expansion
\* trigger is issued once a leaf has been selected, the leaves are taken from
\* the fully expanded tree, and they are selected and recorded in document
\* (enumeration) order.
C20_ExpansionBeforeExtraction ==
    [](C20_Safe) /\ [][cur.node # 0 => trig' = trig]_vars

\* a leaf has been selected and its entry is not recorded yet
InProgress == pc \in {"display", "clip_wait"}
C21_Safe ==
    /\ InProgress => \A r \in Logged : r.node # cur.node
    /\ (~InProgress /\ cur.node # 0 /\ pc # "done") => log[Len(log)].node = cur.node
    /\ \A j, k \in 1..Len(log) : log[j].node = log[k].node => j = k
\* C21 -- At most one extraction attempt is in progress at any time: between
\* the selection of a leaf and the recording of its entry no other leaf is
\* selected and no expansion trigger is issued.
C21_OneAttemptAtATime ==
    /\ [](C21_Safe)
    /\ [][InProgress => (cur'.node = cur.node /\ trig' = trig /\ open' = open
                         /\ Len(log') <= Len(log) + 1)]_vars
\* a second leaf is waiting for its clipboard read while folders exist
C21_Witness ==
    /\ pc = "clip_wait" /\ Len(log) >= 1 /\ Folders # {}

\* C22 -- A container that refuses to expand is not retried: every container
\* receives at most one expansion trigger in a run.
C22_NoRetry ==
    \A i \in 1..N : trig[i] <= 1

\* a reference obtained before an expansion trigger is used after it: the
\* batch expansion clicks a later element of the list it queried before the
\* earlier clicks of the batch, and the recursive walk reads aria-expanded and
\* the sibling region from the button it has just clicked
StaleReferenceUse ==
    \/ ExpandClick /\ bi > 1
    \/ FolderSettleV52
\* C23 -- No reference to a node is carried across an expansion step: after
\* every expansion trigger the nodes are queried again before they are used.
C23_NoStaleReference ==
    [][~StaleReferenceUse]_vars

\* the placeholder files the engines write for a leaf they could not extract
PlaceholderNames ==
    {"_extraction_failed.txt", "_preview_not_found.txt",
     "_preview_not_base64.txt", "_zip_error.txt"}
IsPlaceholderEntry(e) ==
    e.path # <<>> /\ e.path[Len(e.path)] \in PlaceholderNames
\* C24 -- Every processed leaf contributes exactly one entry, its content or
\* a placeholder; a binary leaf whose preview has no base64 payload still
\* yields a placeholder.
C24_OneEntryPerLeaf ==
    \A r \in Logged : ~r.rejected => Len(r.added) = 1

\* two leaves that differ in their enclosing containers or in their name
DistinctLeaves(i, j) ==
    i # j /\ (Chain(i) # Chain(j) \/ tree[i].text # tree[j].text)
\* C25 -- fullPath is unique within one run: two distinct leaves never resolve
\* to the same path, so no leaf's entry is overwritten by another leaf's.
C25_UniqueFullPath ==
    /\ \A r1, r2 \in Logged :
         DistinctLeaves(r1.node, r2.node) =>
            /\ r1.path # r2.path
            /\ \A j \in 1..Len(r1.added), k \in 1..Len(r2.added) :
                 r1.added[j].path # r2.added[k].path
    /\ \A r \in Logged : \A k \in 1..Len(r.added) : r.added[k] \in Entries

\* a leaf the engines reach whose own name they cannot read: its label is
\* missing or blank, while every container above it is readable and opens
NameUnresolved(i) ==
    /\ IsFile(i) /\ ~Readable(i)
    /\ \A a \in Ancestors(tree, i) : Readable(a) /\ tree[a].lab = "direct" /\ ~tree[a].refuses
\* C26 -- A leaf whose name cannot be read is a leaf failure: a placeholder
\* entry is recorded for it and the run continues; it is not silently skipped.
C26_UnnamedLeafPlaceholder ==
    /\ \A r \in Logged :
         (NameUnresolved(r.node) /\ ~r.rejected) =>
            Len(r.added) = 1 /\ IsPlaceholderEntry(r.added[1])
    /\ Completed => \A i \in 1..N : NameUnresolved(i) => \E r \in Logged : r.node = i

\* C27 -- When the archive library rejects a leaf's payload (zip.file throws),
\* for a text leaf as for a binary leaf, a placeholder entry is recorded for
\* that leaf and the run continues; the rejection never aborts the run.
C27_RejectionContained ==
    \A r \in Logged :
       r.rejected =>
          /\ Len(r.added) = 1 /\ IsPlaceholderEntry(r.added[1])
          /\ outcome # "abort"

\* the number of directory levels in a recorded path
SlashCount(path) == Cardinality({k \in 1..Len(path) : path[k] = "/"})
\* a leaf with a readable name of its own below a container whose name cannot
\* be read (its label is missing or blank)
UnderUnreadable(i) ==
    /\ IsFile(i) /\ Readable(i) /\ tree[i].lab = "direct"
    /\ \E a \in Ancestors(tree, i) : ~Readable(a)
    /\ \A a \in Ancestors(tree, i) : ~tree[a].refuses
\* C28 -- When the name of an enclosing container cannot be read, the path
\* still has one segment per enclosing container, with a placeholder segment
\* (never an empty one) in the unreadable place; the level is not dropped from
\* the path and the leaves below the container are not dropped from the export.
C28_UnreadableContainer ==
    /\ \A r \in Logged :
         UnderUnreadable(r.node) =>
            /\ SlashCount(r.path) = Len(Chain(r.node))
            /\ NoEmptySegment(r.path)
    /\ Completed => \A i \in 1..N : UnderUnreadable(i) => \E r \in Logged : r.node = i

\* every container enclosing the leaf has a label the resolver reads
ChainReadable(i) ==
    \A a \in Ancestors(tree, i) : tree[a].lab = "direct" /\ Trim(tree[a].text) # <<>>
\* C29 -- The resolved path names every container enclosing the leaf through
\* the region-ownership relation, outermost first and nearest last; a trailing
\* segment is removed only when it is the leaf's own name, so a file whose own
\* label the lookup does not find keeps its nearest container in the path.
C29_PathNamesEveryContainer ==
    \A r \in Logged :
       ChainReadable(r.node) =>
          /\ r.via = Chain(r.node)
          /\ SlashCount(r.path) = Len(Chain(r.node))

\* content that does not belong to leaf i: the text or the preview payload of
\* another leaf, or what the clipboard held before the run
ForeignContent(i) ==
    {Own(j) : j \in (1..N) \ {i}} \cup {Payload(j) : j \in (1..N) \ {i}} \cup {OldClipboard}
\* C30 -- Content is attributed to the leaf it belongs to: when the click on a
\* leaf leaves the viewer showing the previous leaf's text or preview, or the
\* clipboard holding the previous copy, that stale content is not recorded
\* under the current leaf's path.
C30_NoStaleContent ==
    \A r \in Logged : \A k \in 1..Len(r.added) :
       r.added[k].data \notin ForeignContent(r.node)

\* C31 -- An expansion trigger is only issued to a container that is
\* collapsed at that moment: an expanded container is never triggered, so no
\* container is ever collapsed and no visible subtree is hidden.
C31_TriggerOnlyCollapsed ==
    [][/\ \A i \in 1..N : trig'[i] # trig[i] => ~open[i]
       /\ \A i \in 1..N : open[i] => open'[i]
       /\ \A i \in 1..N : Rendered(i) => Rendered(i)']_vars
\* a run that has expanded a container next to one that was open from the start
C31_Witness ==
    /\ \E i \in 1..N : IsFolder(i) /\ open[i] /\ trig[i] = 0
    /\ \E j \in 1..N : IsFolder(j) /\ open[j] /\ trig[j] > 0

\* the containers whose children an activation of processDirectory is going
\* through, or went through to reach a recorded leaf
Descended ==
    UNION {{stack[k].via[j] : j \in 1..Len(stack[k].via)} : k \in 1..Len(stack)}
    \cup UNION {Ancestors(tree, r.node) : r \in Logged}
PlaceholderTexts ==
    {<<"// Failed to add binary data">>,
     <<"// Image preview found, but it was not Base64 encoded.">>,
     <<"// Binary file detected, but preview image with Data URL was not found.">>,
     <<"// Binary file, but preview not found.">>,
     <<"// Code extraction failed">>, <<"// Code extraction failed.">>}
\* C33 -- A placeholder never occupies the archive path of a content entry:
\* it is recorded at the leaf's full path plus a diagnostic suffix, after a
\* failed extraction no entry exists at the failed leaf's own full path, and
\* no placeholder overwrites or is overwritten by the content of any leaf.
C33_PlaceholderApart ==
    /\ \A r \in Logged : \A k \in 1..Len(r.added) :
         LET e == r.added[k] IN
         IF e.data \in PlaceholderTexts
         THEN /\ IsPlaceholderEntry(e)
              /\ SubSeq(e.path, 1, Len(e.path) - 1) = r.path
              /\ e \in Entries
              /\ \A z \in Entries : z.path # r.path
         ELSE /\ ~IsPlaceholderEntry(e)
              /\ e.path = r.path
    /\ \A z \in Entries : IsPlaceholderEntry(z) <=> z.data \in PlaceholderTexts
\* the archive holds the placeholder of a failed leaf next to the content of
\* another leaf
C33_Witness ==
    /\ \E z \in Entries : IsPlaceholderEntry(z)
    /\ \E z \in Entries : ~IsPlaceholderEntry(z)
    /\ pc = "done"

\* finalization has started: the run is at or past the test of zip.files
Finalizing == pc = "finalize" \/ (pc = "done" /\ outcome \in {"success", "nothing"})
\* the leaves the run has enumerated: the file buttons of allItems (v6.1), the
\* named file wrappers of the containers it went through (v5.2)
EnumeratedLeaves ==
    IF engine = "v61" THEN {allItems[k] : k \in 1..Len(allItems)} \cap Files
    ELSE {i \in Files : Exportable(i)}
\* C34 -- Finalization happens at most once per run and only after every
\* enumerated leaf has been processed; no entry is added to the archive once
\* finalization has started.
C34_FinalizeOnceAtEnd ==
    /\ [](Finalizing => \A i \in EnumeratedLeaves : \E r \in Logged : r.node = i)
    /\ [][Finalizing => (zip' = zip /\ log' = log /\ Finalizing')]_vars
    /\ [][pc' = "finalize" => pc \notin {"finalize", "done"}]_vars
    /\ [][outcome # "running" => (outcome' = outcome /\ pc' = "done")]_vars
\* a run over more than one leaf has been finalized
C34_Witness ==
    /\ pc = "done" /\ outcome = "success" /\ Len(log) >= 2 /\ Len(zip) >= 2

\* no container refuses to open and every button has a label whose text both
\* scripts' name lookups (querySelector at any depth) read
AllReadable == \A i \in 1..N : ~tree[i].refuses /\ Readable(i)
\* the path the expand-then-enumerate flow assigns to a leaf: folderPath from
\* getFullPath, then itemName
filePathV61(i) == getFullPath(i) \o itemNameV61(i)
\* C35 -- The two engines agree on paths: on a tree where no container refuses
\* to open and every name is readable, the recursive traversal assigns to
\* every leaf the path that expandAllFolders followed by getFullPath assigns
\* to it, and a completed run of either covers the same set of paths.
C35_EnginesAgreeOnPaths ==
    AllReadable =>
       /\ \A r \in Logged : r.path = filePathV61(r.node)
       /\ Completed => {r.path : r \in Logged} = {filePathV61(i) : i \in Files}

\* C36 -- Within an expansion batch every expansion trigger is followed by a
\* settle suspension before the next trigger is issued, and the batch ends
\* with a further suspension, longer than the per-node one, before the
\* collapsed containers are queried again.
C36_SettleDelays ==
    /\ [][trig' # trig => pc' \in {"expand_settle", "folder_settle"}]_vars
    /\ [][(pc \in {"expand_settle", "folder_settle"}) => (settled' > 0 /\ trig' = trig)]_vars
    /\ [](pc = "expand_click" /\ bi > 1 => settled = settleDelay)
    /\ [][pc = "batch_settle" => (pc' = "expand_query" /\ settled' > settled /\ trig' = trig)]_vars
    /\ [](pc = "expand_query" /\ batches > 0 => settled > settleDelay)
    /\ [][closedFolders' # closedFolders => (batches = 0 \/ settled > settleDelay)]_vars
\* a batch of two triggers is over and the containers are about to be queried
\* again
C36_Witness ==
    /\ pc = "expand_query" /\ batches > 0 /\ Len(closedFolders) >= 2
    /\ \A k \in 1..Len(closedFolders) : trig[closedFolders[k]] > 0

====
